---- MODULE Spec2Model ----
(***************************************************************************)
(* GoogleAuth (packages/core-api, auth/google/GoogleAuth.ts): the Google   *)
(* identity client.  The model has two parts:                              *)
(*   - SpecPure: the pure functions of the file (normalizeScopes, the      *)
(*     connector's sessionTransform, the manager's sessionScopes and       *)
(*     sessionShouldRefresh) applied to inputs drawn from bounded sets;    *)
(*   - Spec: the asynchronous facade (getAccessToken, getIdToken, logout,  *)
(*     getBackstageIdentity, getProfile) against a session manager.        *)
(* A JavaScript string is a sequence of characters, a character being a    *)
(* one-element TLA+ string (or the name of a code point, "U+00A0").        *)
(* A JavaScript value is a record tagged by its field kind.                *)
(***************************************************************************)
EXTENDS Integers, Sequences, FiniteSets, TLC

VARIABLES
    now,        \* Date.now(), in milliseconds
    call,       \* SpecPure: the last application of a pure function
    mgr,        \* Spec: the session the session manager holds, or Undefined
    op,         \* Spec: the facade operation in flight (one async call)
    requests,   \* Spec: the manager requests the operation in flight has made
    reply,      \* Spec: how the manager settled the awaited request
    outcome,    \* Spec: how the operation's promise settled
    hist        \* Spec: history of the run (last logout, tokens handed out)

vars == <<now, call, mgr, op, requests, reply, outcome, hist>>

----------------------------------------------------------------------------
(* Bounds of the model *)

MaxFrags == 3      \* fragments concatenated into a scope string
MaxArray == 2      \* elements of a scope array
MaxClock == 600002 \* the clock stops advancing here

----------------------------------------------------------------------------
(* JavaScript values *)

Undefined == [kind |-> "undefined"]
Str(s) == [kind |-> "string", val |-> s]
Arr(a) == [kind |-> "array", val |-> a]

EmptyStr == <<>>

Range(s) == {s[i] : i \in DOMAIN s}

\* s.startsWith(p)
StartsWith(s, p) == Len(s) >= Len(p) /\ SubSeq(s, 1, Len(p)) = p

\* The characters the regular-expression class \s matches (ECMAScript
\* WhiteSpace and LineTerminator).
WhiteSpace ==
    {"\t", "\n", "U+000B", "\f", "\r", " ", "U+00A0", "U+1680", "U+2000",
     "U+2001", "U+2002", "U+2003", "U+2004", "U+2005", "U+2006", "U+2007",
     "U+2008", "U+2009", "U+200A", "U+2028", "U+2029", "U+202F", "U+205F",
     "U+3000", "U+FEFF"}

\* const SCOPE_PREFIX = 'https://www.googleapis.com/auth/'
SCOPE_PREFIX ==
    <<"h","t","t","p","s",":","/","/","w","w","w",".","g","o","o","g","l","e",
      "a","p","i","s",".","c","o","m","/","a","u","t","h","/">>

OPENID == <<"o","p","e","n","i","d">>
PROFILE == <<"p","r","o","f","i","l","e">>
EMAIL == <<"e","m","a","i","l">>
USERINFO_DOT == <<"u","s","e","r","i","n","f","o",".">>

----------------------------------------------------------------------------
(* normalizeScopes *)

\* !scopes : undefined and the empty string are falsy, every array is truthy
Falsy(v) ==
    \/ v.kind = "undefined"
    \/ v.kind = "string" /\ v.val = EmptyStr

\* s.split(separator) for a separator that matches one character of seps: the
\* pieces between the separators, empty pieces included (the empty string
\* splits into one empty piece).  cut(k) is the place of the k-th separator.
SplitOn(s, seps) ==
    LET at == {i \in 1..Len(s) : s[i] \in seps}
        n == Cardinality(at)
        cut(k) == IF k = 0 THEN 0
                  ELSE IF k = n + 1 THEN Len(s) + 1
                  ELSE CHOOSE i \in at : Cardinality({j \in at : j < i}) = k - 1
    IN [k \in 1..(n + 1) |-> SubSeq(s, cut(k - 1) + 1, cut(k) - 1)]

\* scopes.split(/[\s]/)
Split(s) == SplitOn(s, WhiteSpace)

\* .filter(Boolean) on an array of strings: the empty strings are dropped
FilterBoolean(list) == SelectSeq(list, LAMBDA p : p # EmptyStr)

\* A plausible slip: the startsWith test is left out and every token that is
\* not a short name is prefixed.
normalizeScopeNoPrefixTest(scope) ==
    IF scope = OPENID THEN scope
    ELSE IF scope = PROFILE \/ scope = EMAIL
         THEN SCOPE_PREFIX \o USERINFO_DOT \o scope
         ELSE SCOPE_PREFIX \o scope

\* A plausible slip: the short names are expanded without the namespace.
normalizeScopeShortNameUnqualified(scope) ==
    IF scope = OPENID THEN scope
    ELSE IF scope = PROFILE \/ scope = EMAIL
         THEN USERINFO_DOT \o scope
         ELSE IF StartsWith(scope, SCOPE_PREFIX) THEN scope
              ELSE SCOPE_PREFIX \o scope

\* The callback of scopeList.map
normalizeScope(scope) ==
    IF scope = OPENID THEN scope
    ELSE IF scope = PROFILE \/ scope = EMAIL
         THEN SCOPE_PREFIX \o USERINFO_DOT \o scope
         ELSE IF StartsWith(scope, SCOPE_PREFIX) THEN scope
              ELSE SCOPE_PREFIX \o scope

\* A plausible slip: the string is split on the space character only.
scopeListSpaceOnly(scopes) ==
    IF scopes.kind = "array" THEN scopes.val
    ELSE FilterBoolean(SplitOn(scopes.val, {" "}))

\* const scopeList = Array.isArray(scopes) ? scopes : scopes.split(..).filter(..)
scopeList(scopes) ==
    IF scopes.kind = "array" THEN scopes.val
    ELSE FilterBoolean(Split(scopes.val))

\* new Set([...]) of the default scopes of create()
defaultScopes ==
    {OPENID, SCOPE_PREFIX \o USERINFO_DOT \o EMAIL,
     SCOPE_PREFIX \o USERINFO_DOT \o PROFILE}

\* A plausible slip: an absent input falls back to the default scopes.
normalizeScopesDefaulting(scopes) ==
    IF Falsy(scopes) THEN defaultScopes
    ELSE LET list == scopeList(scopes)
         IN {normalizeScope(list[i]) : i \in DOMAIN list}

\* static normalizeScopes(scopes?: string | string[]): Set<string>
normalizeScopes(scopes) ==
    IF Falsy(scopes) THEN {}
    ELSE LET list == scopeList(scopes)
             normalizedScopes == [i \in DOMAIN list |-> normalizeScope(list[i])]
         IN Range(normalizedScopes)

----------------------------------------------------------------------------
(* The connector's sessionTransform and the manager's configuration *)

\* new Date(ms) and Date.prototype.getTime(): a time value in milliseconds.
\* (TimeClip leaves every integral time value of the model's range as it is.)
NewDate(ms) == [kind |-> "date", time |-> ms]
getTime(date) == date.time

\* A plausible slip: expiresInSeconds is added to the millisecond clock as is.
sessionTransformSecondsAsMs(res, dateNow) ==
    [res EXCEPT !.providerInfo =
        [idToken |-> res.providerInfo.idToken,
         accessToken |-> res.providerInfo.accessToken,
         scopes |-> normalizeScopes(Str(res.providerInfo.scope)),
         expiresAt |-> NewDate(dateNow + res.providerInfo.expiresInSeconds)]]

\* sessionTransform(res: GoogleAuthResponse): GoogleSession, with Date.now()
\* = dateNow.  { ...res, providerInfo: {...} } keeps every other field of res.
sessionTransform(res, dateNow) ==
    [res EXCEPT !.providerInfo =
        [idToken |-> res.providerInfo.idToken,
         accessToken |-> res.providerInfo.accessToken,
         scopes |-> normalizeScopes(Str(res.providerInfo.scope)),
         expiresAt |-> NewDate(dateNow + res.providerInfo.expiresInSeconds * 1000)]]

\* sessionScopes: (session) => session.providerInfo.scopes
sessionScopes(session) == session.providerInfo.scopes

\* A plausible slip: <= where the code has <.
sessionShouldRefreshInclusive(session, dateNow) ==
    getTime(session.providerInfo.expiresAt) - dateNow <= (60 * 5) * 1000

\* sessionShouldRefresh: expiresInSec = (expiresAt.getTime() - Date.now()) / 1000,
\* expiresInSec < 60 * 5.  The quotient is not an integer; dividing by the
\* positive 1000 keeps the order, so both sides are compared times 1000.
sessionShouldRefresh(session, dateNow) ==
    LET expiresInSecTimes1000 == getTime(session.providerInfo.expiresAt) - dateNow
    IN expiresInSecTimes1000 < (60 * 5) * 1000

----------------------------------------------------------------------------
(* Inputs *)

COMMA == <<",">>
SPACE == <<" ">>
TAB == <<"\t">>
CUSTOM == <<"x">>

\* The fragments scope strings are built from
Frags == {OPENID, PROFILE, EMAIL, SCOPE_PREFIX, USERINFO_DOT, CUSTOM, SPACE,
          TAB, COMMA}

RECURSIVE StringsUpTo(_)
StringsUpTo(n) ==
    IF n = 0 THEN {EmptyStr}
    ELSE LET shorter == StringsUpTo(n - 1)
         IN shorter \cup {s \o f : s \in shorter, f \in Frags}

\* The elements of scope arrays
ArrayElems ==
    Frags \cup {EmptyStr, SCOPE_PREFIX \o CUSTOM, CUSTOM \o SPACE \o OPENID,
                OPENID \o CUSTOM, SCOPE_PREFIX \o USERINFO_DOT \o EMAIL}

SeqsUpTo(S, n) == UNION {[1..k -> S] : k \in 0..n}

\* scopes?: string | string[]
ScopeInputs ==
    {Undefined}
        \cup {Str(s) : s \in StringsUpTo(MaxFrags)}
        \cup {Arr(a) : a \in SeqsUpTo(ArrayElems, MaxArray)}

\* The scope strings of provider responses
ResponseScopes ==
    {EmptyStr,
     OPENID,
     EMAIL \o SPACE \o PROFILE,
     OPENID \o SPACE \o SCOPE_PREFIX \o USERINFO_DOT \o EMAIL \o SPACE
        \o SCOPE_PREFIX \o USERINFO_DOT \o PROFILE,
     SCOPE_PREFIX \o CUSTOM \o TAB \o CUSTOM,
     SPACE \o SPACE}

Identities ==
    {[accessToken |-> <<"a","t","1">>, idToken |-> <<"i","d","1">>,
      profile |-> [email |-> "a@example.com", displayName |-> "A"],
      backstageIdentity |-> [id |-> "a", idToken |-> "ba"]],
     [accessToken |-> <<"a","t","2">>, idToken |-> <<"i","d","2">>,
      profile |-> [email |-> "b@example.com", displayName |-> "B"],
      backstageIdentity |-> [id |-> "b", idToken |-> "bb"]]}

ExpiresInSeconds == {0, 300, 600}

\* GoogleAuthResponse
Responses ==
    {[providerInfo |-> [accessToken |-> who.accessToken, idToken |-> who.idToken,
                        scope |-> sc, expiresInSeconds |-> e],
      profile |-> who.profile,
      backstageIdentity |-> who.backstageIdentity] :
        who \in Identities, sc \in ResponseScopes, e \in ExpiresInSeconds}

ClockSteps == {299999, 300000, 300001}

\* The orders in which the elements of a set can be listed
Listings(S) == {s \in [1..Cardinality(S) -> S] : Range(s) = S}

----------------------------------------------------------------------------
(* SpecPure: the pure functions applied to bounded inputs *)

NoCall == [fn |-> "none", of |-> "nothing"]

\* No facade operation has been called
Idle == [name |-> "idle", pc |-> "done"]
NoReply == [kind |-> "pending"]
NoOutcome == [kind |-> "pending"]
\* No logout has completed, no session was removed, no token was returned
InitHist == [afterLogout |-> FALSE, stale |-> EmptyStr, lastToken |-> EmptyStr]

clientVars == <<mgr, op, requests, reply, outcome, hist>>

\* The argument of the function under test is drawn; nothing is applied yet
InitPure ==
    /\ now = 0
    /\ call \in {[fn |-> "none", of |-> "scopes", arg |-> x] : x \in ScopeInputs}
            \cup {[fn |-> "none", of |-> "response", arg |-> r] : r \in Responses}
    /\ mgr = Undefined
    /\ op = Idle
    /\ requests = <<>>
    /\ reply = NoReply
    /\ outcome = NoOutcome
    /\ hist = InitHist

\* Time passes
Tick ==
    /\ \E d \in ClockSteps :
        /\ now + d <= MaxClock
        /\ now' = now + d
    /\ UNCHANGED <<call, clientVars>>

CallNormalizeScopes ==
    /\ call.fn = "none" /\ call.of = "scopes"
    /\ call' = [fn |-> "normalizeScopes", arg |-> call.arg,
                ret |-> normalizeScopes(call.arg)]
    /\ UNCHANGED <<now, clientVars>>

\* The set normalizeScopes returned is listed and normalized again
CallNormalizeScopesAgain ==
    /\ call.fn = "normalizeScopes"
    /\ \E list \in Listings(call.ret) :
        call' = [fn |-> "normalizeScopesAgain", arg |-> call.arg,
                 first |-> call.ret, list |-> list,
                 ret |-> normalizeScopes(Arr(list))]
    /\ UNCHANGED <<now, clientVars>>

CallSessionTransform ==
    /\ call.fn = "none" /\ call.of = "response"
    /\ call' = [fn |-> "sessionTransform", arg |-> call.arg, at |-> now,
                ret |-> sessionTransform(call.arg, now)]
    /\ UNCHANGED <<now, clientVars>>

\* The session of the last call, when it has one
CallSession ==
    IF call.fn = "sessionTransform" THEN call.ret ELSE call.arg

CallSessionScopes ==
    /\ call.fn \in {"sessionTransform", "sessionShouldRefresh", "sessionScopes"}
    /\ call' = [fn |-> "sessionScopes", arg |-> CallSession,
                ret |-> sessionScopes(CallSession)]
    /\ UNCHANGED <<now, clientVars>>

CallSessionShouldRefresh ==
    /\ call.fn \in {"sessionTransform", "sessionShouldRefresh", "sessionScopes"}
    /\ call' = [fn |-> "sessionShouldRefresh", arg |-> CallSession, at |-> now,
                ret |-> sessionShouldRefresh(CallSession, now)]
    /\ UNCHANGED <<now, clientVars>>

NextPure ==
    \/ Tick
    \/ CallNormalizeScopes
    \/ CallNormalizeScopesAgain
    \/ CallSessionTransform
    \/ CallSessionScopes
    \/ CallSessionShouldRefresh

SpecPure == InitPure /\ [][NextPure]_vars

----------------------------------------------------------------------------
(* The facade: AuthRequestOptions and the requests to the session manager *)

\* A property of an options object: absent, a boolean or a Set<string>
Absent == [kind |-> "absent"]
Bool(b) == [kind |-> "boolean", val |-> b]
SetOf(S) == [kind |-> "set", val |-> S]

\* An options object: AuthRequestOptions (optional?, instantPopup?) and the
\* scopes the manager's GetSessionOptions adds
Options(optional, instantPopup, scopes) ==
    [kind |-> "object", optional |-> optional, instantPopup |-> instantPopup,
     scopes |-> scopes]

EmptyObject == Options(Absent, Absent, Absent)

\* { ...options }: spreading undefined adds no property
Spread(options) == IF options.kind = "undefined" THEN EmptyObject ELSE options

\* options: AuthRequestOptions = {} : the default replaces undefined
DefaultEmpty(options) == IF options.kind = "undefined" THEN EmptyObject ELSE options

\* A plausible slip: { scopes: ..., ...options }, the spread written last
getAccessTokenRequestSpreadLast(scope, options) ==
    IF Spread(options).scopes.kind = "absent"
    THEN [Spread(options) EXCEPT !.scopes = SetOf(normalizeScopes(scope))]
    ELSE Spread(options)

\* getAccessToken: { ...options, scopes: GoogleAuth.normalizeScopes(scope) }
getAccessTokenRequest(scope, options) ==
    [Spread(options) EXCEPT !.scopes = SetOf(normalizeScopes(scope))]

\* A fulfilled or rejected promise
Fulfilled(v) == [kind |-> "fulfilled", value |-> v]
Rejected(e) == [kind |-> "rejected", reason |-> e]

IsUndefined(v) == v = Undefined

\* A plausible slip: the token of an earlier call is kept and returned when
\* the manager has no session.
getAccessTokenReturnCached(session) ==
    IF IsUndefined(session) THEN Str(hist.lastToken)
    ELSE Str(session.providerInfo.accessToken)

\* return session?.providerInfo.accessToken ?? ''
getAccessTokenReturn(session) ==
    IF IsUndefined(session) THEN Str(EmptyStr)
    ELSE Str(session.providerInfo.accessToken)

\* A plausible slip: the ?? '' is left out
getIdTokenReturnNoDefault(session) ==
    IF IsUndefined(session) THEN Undefined
    ELSE Str(session.providerInfo.idToken)

\* return session?.providerInfo.idToken ?? ''
getIdTokenReturn(session) ==
    IF IsUndefined(session) THEN Str(EmptyStr)
    ELSE Str(session.providerInfo.idToken)

\* return session?.backstageIdentity
getBackstageIdentityReturn(session) ==
    IF IsUndefined(session) THEN Undefined
    ELSE [kind |-> "identity", val |-> session.backstageIdentity]

\* return session?.profile
getProfileReturn(session) ==
    IF IsUndefined(session) THEN Undefined
    ELSE [kind |-> "profile", val |-> session.profile]

\* The rest of an accessor once its awaited getSession has fulfilled with session
AfterGetSession(name, session) ==
    CASE name = "getAccessToken" -> Fulfilled(getAccessTokenReturn(session))
      [] name = "getIdToken" -> Fulfilled(getIdTokenReturn(session))
      [] name = "getBackstageIdentity" -> Fulfilled(getBackstageIdentityReturn(session))
      [] name = "getProfile" -> Fulfilled(getProfileReturn(session))

\* A plausible slip: the rejection is caught and the sentinel returned
AfterAwaitCatching(name, settled) ==
    IF settled.kind = "rejected"
    THEN IF name = "logout" THEN Fulfilled(Undefined)
         ELSE AfterGetSession(name, Undefined)
    ELSE IF name = "logout" THEN Fulfilled(Undefined)
         ELSE AfterGetSession(name, settled.value)

\* An async method resumed from await: a rejection of the awaited promise is
\* thrown at the await and, nothing catching it, rejects the method's promise
\* with the same reason; a fulfilment runs the rest of the body.
AfterAwait(name, settled) ==
    IF settled.kind = "rejected" THEN Rejected(settled.reason)
    ELSE IF name = "logout" THEN Fulfilled(Undefined)
         ELSE AfterGetSession(name, settled.value)

----------------------------------------------------------------------------
(* Inputs of the facade *)

\* scope?: string | string[]
ScopeArgs ==
    {Undefined, Str(EmptyStr), Str(OPENID \o SPACE \o EMAIL), Arr(<<PROFILE>>),
     Str(SCOPE_PREFIX \o CUSTOM)}

\* options?: AuthRequestOptions (the last one carries scopes of its own)
OptionArgs ==
    {Undefined, EmptyObject, Options(Bool(TRUE), Absent, Absent),
     Options(Bool(FALSE), Bool(TRUE), SetOf({CUSTOM}))}

\* The responses the connector receives in this part of the model
LoginResponses ==
    {r \in Responses :
        /\ r.providerInfo.expiresInSeconds = 600
        /\ r.providerInfo.scope = EMAIL \o SPACE \o PROFILE}

Faults == {"AuthorizationDenied", "NetworkError"}

----------------------------------------------------------------------------
(* Spec: the facade against the session manager *)

Init ==
    /\ now = 0
    /\ call = NoCall
    /\ mgr = Undefined
    /\ op = Idle
    /\ requests = <<>>
    /\ reply = NoReply
    /\ outcome = NoOutcome
    /\ hist = InitHist

\* An async method runs to its first await when it is called: the request to
\* the manager is made in the calling step.
Invoke(name, scope, options, request) ==
    /\ op' = [name |-> name, pc |-> "await", scope |-> scope, options |-> options,
              afterLogout |-> hist.afterLogout, stale |-> hist.stale]
    /\ requests' = <<request>>
    /\ reply' = NoReply
    /\ outcome' = NoOutcome
    /\ UNCHANGED <<now, call, mgr, hist>>

GetSessionRequest(options) == [method |-> "getSession", options |-> options]
RemoveSessionRequest == [method |-> "removeSession", options |-> Undefined]

\* async getAccessToken(scope?, options?)
getAccessToken ==
    /\ op.pc = "done"
    /\ \E scope \in ScopeArgs, options \in OptionArgs :
        Invoke("getAccessToken", scope, options,
               GetSessionRequest(getAccessTokenRequest(scope, options)))

\* async getIdToken(options = {})
getIdToken ==
    /\ op.pc = "done"
    /\ \E options \in OptionArgs :
        Invoke("getIdToken", Undefined, options,
               GetSessionRequest(DefaultEmpty(options)))

\* async getBackstageIdentity(options = {})
getBackstageIdentity ==
    /\ op.pc = "done"
    /\ \E options \in OptionArgs :
        Invoke("getBackstageIdentity", Undefined, options,
               GetSessionRequest(DefaultEmpty(options)))

\* async getProfile(options = {})
getProfile ==
    /\ op.pc = "done"
    /\ \E options \in OptionArgs :
        Invoke("getProfile", Undefined, options,
               GetSessionRequest(DefaultEmpty(options)))

\* async logout()
logout ==
    /\ op.pc = "done"
    /\ Invoke("logout", Undefined, Undefined, RemoveSessionRequest)

Pending(method) ==
    /\ op.pc = "await"
    /\ reply = NoReply
    /\ requests[Len(requests)].method = method

\* The manager holds a session that answers the request: it is fresh and has
\* the scopes asked for
CurrentSessionServes(request) ==
    /\ ~IsUndefined(mgr)
    /\ ~sessionShouldRefresh(mgr, now)
    /\ request.options.scopes.kind = "set"
          => request.options.scopes.val \subseteq sessionScopes(mgr)

\* sessionManager.getSession resolves with the session the manager holds
ManagerReturnsSession ==
    /\ Pending("getSession")
    /\ CurrentSessionServes(requests[Len(requests)])
    /\ reply' = Fulfilled(mgr)
    /\ UNCHANGED <<now, call, mgr, op, requests, outcome, hist>>

\* sessionManager.getSession has the connector create or refresh a session:
\* the provider's response goes through sessionTransform
ManagerCreatesSession ==
    /\ Pending("getSession")
    /\ ~CurrentSessionServes(requests[Len(requests)])
    /\ \E res \in LoginResponses :
        /\ mgr' = sessionTransform(res, now)
        /\ reply' = Fulfilled(mgr')
    /\ UNCHANGED <<now, call, op, requests, outcome, hist>>

\* sessionManager.getSession resolves to no session
ManagerReturnsNoSession ==
    /\ Pending("getSession")
    /\ ~CurrentSessionServes(requests[Len(requests)])
    /\ mgr' = Undefined
    /\ reply' = Fulfilled(Undefined)
    /\ UNCHANGED <<now, call, op, requests, outcome, hist>>

\* sessionManager.removeSession resolves: the manager holds no session
ManagerRemovesSession ==
    /\ Pending("removeSession")
    /\ mgr' = Undefined
    /\ reply' = Fulfilled(Undefined)
    /\ hist' = [hist EXCEPT !.stale =
                    IF IsUndefined(mgr) THEN EmptyStr
                    ELSE mgr.providerInfo.accessToken]
    /\ UNCHANGED <<now, call, op, requests, outcome>>

\* the manager rejects the request
ManagerRejects ==
    /\ op.pc = "await"
    /\ reply = NoReply
    /\ \E fault \in Faults : reply' = Rejected(fault)
    /\ UNCHANGED <<now, call, mgr, op, requests, outcome, hist>>

\* The awaited promise has settled and the method continues
Resume ==
    /\ op.pc = "await"
    /\ reply # NoReply
    /\ outcome' = AfterAwait(op.name, reply)
    /\ op' = [op EXCEPT !.pc = "done"]
    /\ hist' = [hist EXCEPT
                  !.afterLogout =
                      IF op.name = "logout" /\ outcome'.kind = "fulfilled"
                      THEN TRUE ELSE @,
                  !.lastToken =
                      IF op.name = "getAccessToken" /\ outcome'.kind = "fulfilled"
                      THEN outcome'.value.val ELSE @]
    /\ UNCHANGED <<now, call, mgr, requests, reply>>

\* Time passes
ClockAdvances ==
    /\ \E d \in ClockSteps :
        /\ now + d <= MaxClock
        /\ now' = now + d
    /\ UNCHANGED <<call, clientVars>>

Next ==
    \/ getAccessToken
    \/ getIdToken
    \/ getBackstageIdentity
    \/ getProfile
    \/ logout
    \/ ManagerReturnsSession
    \/ ManagerCreatesSession
    \/ ManagerReturnsNoSession
    \/ ManagerRemovesSession
    \/ ManagerRejects
    \/ Resume
    \/ ClockAdvances

Spec == Init /\ [][Next]_vars

----------------------------------------------------------------------------
(* Properties of the pure functions (checked under SpecPure) *)

\* The maximal whitespace-free substrings of s: a word starts where a
\* character that is no whitespace has no such character before it, and runs to
\* the last character before the next whitespace.
MaximalWords(s) ==
    LET starts == {i \in 1..Len(s) :
                      s[i] \notin WhiteSpace /\ (i = 1 \/ s[i - 1] \in WhiteSpace)}
        end(i) == CHOOSE j \in i..Len(s) :
                      /\ \A k \in i..j : s[k] \notin WhiteSpace
                      /\ j = Len(s) \/ s[j + 1] \in WhiteSpace
    IN {SubSeq(s, i, end(i)) : i \in starts}

TokensOf(x) ==
    IF x.kind = "undefined" THEN {}
    ELSE IF x.kind = "array" THEN Range(x.val)
    ELSE MaximalWords(x.val)

TokenRule(t) ==
    CASE t = OPENID -> OPENID
      [] t = PROFILE -> SCOPE_PREFIX \o USERINFO_DOT \o PROFILE
      [] t = EMAIL -> SCOPE_PREFIX \o USERINFO_DOT \o EMAIL
      [] OTHER -> IF StartsWith(t, SCOPE_PREFIX) THEN t ELSE SCOPE_PREFIX \o t

\* C1: normalizeScopes returns exactly the set of the images of the input's
\* tokens under the per-token rule ('openid' kept, 'profile'/'email' expanded
\* to <namespace>userinfo.<token>, qualified tokens kept, every other token
\* prefixed); the tokens of a string are its maximal whitespace-free
\* substrings, the tokens of an array are its elements.
C1_NormalizeIsTokenRule ==
    call.fn = "normalizeScopes"
        => call.ret = {TokenRule(t) : t \in TokensOf(call.arg)}

C1_Witness ==
    /\ call.fn = "normalizeScopes"
    /\ call.arg = Str(PROFILE \o TAB \o SCOPE_PREFIX)
    /\ call.ret = {SCOPE_PREFIX \o USERINFO_DOT \o PROFILE, SCOPE_PREFIX}

IsScopeSet(S) == \A e \in S : e = OPENID \/ StartsWith(e, SCOPE_PREFIX)

\* C4: every scope set the component produces (the result of normalizeScopes,
\* the scopes of a session built by sessionTransform and read by
\* sessionScopes, the default scope set) holds only 'openid' and strings
\* that begin with the namespace.
C4_ScopeSetInvariant ==
    /\ call.fn = "normalizeScopes" => IsScopeSet(call.ret)
    /\ call.fn = "sessionTransform" => IsScopeSet(call.ret.providerInfo.scopes)
    /\ call.fn = "sessionScopes" => IsScopeSet(call.ret)
    /\ IsScopeSet(defaultScopes)

C4_Witness ==
    /\ call.fn = "sessionTransform"
    /\ call.arg.providerInfo.scope = EMAIL \o SPACE \o PROFILE
    /\ Cardinality(call.ret.providerInfo.scopes) = 2

IsBlank(x) ==
    \/ x.kind = "undefined"
    \/ x.kind = "string" /\ \A i \in 1..Len(x.val) : x.val[i] \in WhiteSpace
    \/ x.kind = "array" /\ x.val = <<>>

\* C5: for undefined, the empty string, a string of whitespace only and the
\* empty array, normalizeScopes returns the empty set (not the default set).
C5_BlankGivesEmptySet ==
    (call.fn = "normalizeScopes" /\ IsBlank(call.arg))
        => (call.ret = {} /\ call.ret # defaultScopes)

C5_Witness ==
    /\ call.fn = "normalizeScopes"
    /\ call.arg = Str(SPACE \o TAB \o SPACE)
    /\ call.ret = {}

\* C6: normalizing the elements of a result of normalizeScopes, listed in any
\* order, gives that result again; a qualified scope is returned unchanged.
C6_NormalizeIdempotent ==
    call.fn = "normalizeScopesAgain"
        => /\ call.ret = call.first
           /\ \A e \in call.first :
                StartsWith(e, SCOPE_PREFIX) => normalizeScopes(Arr(<<e>>)) = {e}

C6_Witness ==
    /\ call.fn = "normalizeScopesAgain"
    /\ call.first = {OPENID, SCOPE_PREFIX \o CUSTOM}
    /\ call.list[1] = SCOPE_PREFIX \o CUSTOM
    /\ call.ret = call.first

\* C9: the session built at clock time T from a response with
\* expiresInSeconds = e has expiresAt = T + e * 1000, the normalized scopes of
\* the response's scope string, and the response's access token, ID token,
\* profile and backstage identity.
C9_SessionTransform ==
    call.fn = "sessionTransform"
        => LET res == call.arg
               session == call.ret
           IN /\ getTime(session.providerInfo.expiresAt)
                    = call.at + res.providerInfo.expiresInSeconds * 1000
              /\ session.providerInfo.scopes
                    = {TokenRule(t) : t \in MaximalWords(res.providerInfo.scope)}
              /\ session.providerInfo.accessToken = res.providerInfo.accessToken
              /\ session.providerInfo.idToken = res.providerInfo.idToken
              /\ session.profile = res.profile
              /\ session.backstageIdentity = res.backstageIdentity

C9_Witness ==
    /\ call.fn = "sessionTransform"
    /\ call.arg.providerInfo.expiresInSeconds = 600
    /\ call.at = 300001
    /\ getTime(call.ret.providerInfo.expiresAt) = 900001

RefreshThresholdMs == 300 * 1000

\* C10: the refresh predicate is true at clock time t exactly when
\* expiresAt - t < 300000 ms: false when exactly 300 s remain, true for an
\* expired session.
C10_RefreshPredicate ==
    call.fn = "sessionShouldRefresh"
        => LET remaining == getTime(call.arg.providerInfo.expiresAt) - call.at
           IN /\ call.ret = TRUE <=> remaining < RefreshThresholdMs
              /\ remaining = RefreshThresholdMs => call.ret = FALSE
              /\ remaining <= 0 => call.ret = TRUE

C10_Witness ==
    /\ call.fn = "sessionShouldRefresh"
    /\ getTime(call.arg.providerInfo.expiresAt) - call.at = RefreshThresholdMs
    /\ call.ret = FALSE

C10_WitnessExpired ==
    /\ call.fn = "sessionShouldRefresh"
    /\ getTime(call.arg.providerInfo.expiresAt) < call.at
    /\ call.ret = TRUE

----------------------------------------------------------------------------
(* Properties of the facade (checked under Spec) *)

Done(name) == op.name = name /\ op.pc = "done"

GotSession == reply.kind = "fulfilled" /\ ~IsUndefined(reply.value)
GotNoSession == reply.kind = "fulfilled" /\ IsUndefined(reply.value)

\* The property of the options argument, absent when there is no argument
Carried(options, field) ==
    IF options.kind = "undefined" THEN Absent ELSE options[field]

\* C2: getAccessToken(scope, options) makes exactly one getSession request;
\* its scopes are normalizeScopes(scope), whatever scopes the options carry;
\* the other option fields are passed on unchanged; when the manager returns
\* a session the result is that session's access token.
C2_GetAccessTokenRequest ==
    op.name = "getAccessToken"
        => /\ Len(requests) = 1
           /\ requests[1].method = "getSession"
           /\ requests[1].options.scopes = SetOf(normalizeScopes(op.scope))
           /\ requests[1].options.optional = Carried(op.options, "optional")
           /\ requests[1].options.instantPopup = Carried(op.options, "instantPopup")
           /\ (op.pc = "done" /\ GotSession)
                => outcome = Fulfilled(Str(reply.value.providerInfo.accessToken))

C2_Witness ==
    /\ Done("getAccessToken")
    /\ op.scope = Str(OPENID \o SPACE \o EMAIL)
    /\ op.options = Options(Bool(FALSE), Bool(TRUE), SetOf({CUSTOM}))
    /\ requests[1].options.scopes
          = SetOf({OPENID, SCOPE_PREFIX \o USERINFO_DOT \o EMAIL})
    /\ GotSession
    /\ outcome = Fulfilled(Str(<<"a","t","2">>))

\* C3: when getSession resolves to no session, getAccessToken and getIdToken
\* return the empty string, getProfile and getBackstageIdentity return
\* undefined, and none of them fails.
C3_NoSessionSentinels ==
    (op.pc = "done" /\ op.name \notin {"idle", "logout"} /\ GotNoSession)
        => /\ op.name \in {"getAccessToken", "getIdToken"}
                => outcome = Fulfilled(Str(EmptyStr))
           /\ op.name \in {"getProfile", "getBackstageIdentity"}
                => outcome = Fulfilled(Undefined)

C3_Witness ==
    /\ Done("getIdToken")
    /\ GotNoSession
    /\ outcome = Fulfilled(Str(EmptyStr))

\* C7: when the manager rejects getSession or removeSession, the operation
\* that made the call fails with that same fault and has made that one call
\* only.
C7_FaultsPropagate ==
    (op.pc = "done" /\ op.name # "idle" /\ reply.kind = "rejected")
        => /\ outcome = Rejected(reply.reason)
           /\ Len(requests) = 1

C7_Witness ==
    /\ Done("getProfile")
    /\ reply = Rejected("NetworkError")
    /\ outcome = Rejected("NetworkError")

C7_WitnessLogout ==
    /\ Done("logout")
    /\ reply = Rejected("AuthorizationDenied")
    /\ outcome = Rejected("AuthorizationDenied")

\* C8: a getAccessToken call issued after a logout has completed asks the
\* manager again; it returns '' when the manager has no session, and returns
\* the access token of the session removed by the logout only when the
\* manager hands a session with that token back.
C8_NoStaleTokenAfterLogout ==
    (Done("getAccessToken") /\ op.afterLogout)
        => /\ Len(requests) = 1
           /\ requests[1].method = "getSession"
           /\ GotNoSession => outcome = Fulfilled(Str(EmptyStr))
           /\ (op.stale # EmptyStr /\ outcome = Fulfilled(Str(op.stale)))
                => (GotSession /\ reply.value.providerInfo.accessToken = op.stale)

C8_Witness ==
    /\ Done("getAccessToken")
    /\ op.afterLogout
    /\ op.stale = <<"a","t","1">>
    /\ hist.lastToken = EmptyStr
    /\ GotNoSession
    /\ outcome = Fulfilled(Str(EmptyStr))

====
